---- MODULE Spec2Model ----
(***************************************************************************)
(* aoc-fetch: the fetch-or-load policy over the disk cache, the response   *)
(* classifiers of fetch_input and get_stars, and the delimited splitter.   *)
(*                                                                         *)
(* Text is a sequence of fragments (a word, a phrase or a character); a    *)
(* probe is a fixed fragment sequence and str::contains is a search for a  *)
(* contiguous run of fragments.                                            *)
(***************************************************************************)
EXTENDS Naturals, Sequences, FiniteSets

VARIABLES dir, files, call, served, pc, loc, lastWriter

vars == <<dir, files, call, served, pc, loc, lastWriter>>

(* ------------------------------ bounds -------------------------------- *)

\* longest response body (in fragments) given to the classifiers
MaxLen == 3
\* longest body (in characters) given to split_by
MaxSplitLen == 4
\* longest delimiter (in characters) given to split_by
MaxDelimLen == 2

(* ------------------------------ values -------------------------------- *)

Ok(v) == [tag |-> "Ok", val |-> v]

Cause(msg) == [tag |-> "Err", val |-> msg]

\* Result::unwrap / Result::expect on an Err: the call does not return
Panic(msg) == [tag |-> "Panic", val |-> msg]

NoResult == [tag |-> "None", val |-> <<>>]

AocInput(day, year, input) == [day |-> day, year |-> year, input |-> input]

Zero == <<"Zero">>

One == <<"One">>

Two == <<"Two">>

INPUT_DIR == "inputs"

get_input_filename(input_dir, year, day) == <<input_dir, "/", year, "-", day, ".txt">>

(* --------------------------- str::contains ---------------------------- *)

Contains(hay, needle) ==
    \E i \in 0..Len(hay) :
        /\ i + Len(needle) <= Len(hay)
        /\ SubSeq(hay, i + 1, i + Len(needle)) = needle

SERVICE_UNAVAILABLE == <<"Service Unavailable">>

RATE_LIMITED == <<"Please don't repeatedly request">>

NOT_FOUND == <<"Not Found">>

LOG_IN == <<"log ", "in">>

INTERNAL_SERVER_ERROR == <<"Internal Server Error">>

FIRST_HALF == <<"The first half of this puzzle is complete!">>

BOTH_PARTS == <<"Both parts of this puzzle are complete!">>

(* ----------------------------- transport ------------------------------ *)

\* What the blocking client yields for one GET: send() fails, or text()
\* fails, or the body arrives (whatever the status code).
SendFailed == [send |-> FALSE, text |-> FALSE, body |-> <<>>]

DecodeFailed == [send |-> TRUE, text |-> FALSE, body |-> <<>>]

Received(b) == [send |-> TRUE, text |-> TRUE, body |-> b]

Outcomes(B) == {SendFailed, DecodeFailed} \cup {Received(b) : b \in B}

(* ----------------------------- fetch_input ---------------------------- *)

fetch_input_probes_reordered(day, year, net) ==
    IF ~net.send THEN Cause(<<"Error sending GET request">>)
    ELSE IF ~net.text THEN Cause(<<"Error converting input to string">>)
    ELSE IF Contains(net.body, LOG_IN)
        THEN Cause(<<"Session cookie is invalid">>)
    ELSE IF Contains(net.body, SERVICE_UNAVAILABLE)
        THEN Cause(<<"Advent of Code is dead">>)
    ELSE IF Contains(net.body, RATE_LIMITED) \/ Contains(net.body, NOT_FOUND)
        THEN Cause(<<"Puzzle for day ", day, " is not live yet">>)
    ELSE IF Contains(net.body, INTERNAL_SERVER_ERROR)
        THEN Cause(<<"Internal Server Error, invalid session cookie perhaps?">>)
    ELSE Ok(net.body)

\* The session token only travels in the Cookie header; the reply is the
\* environment's choice, net.
fetch_input(day, year, net) ==
    IF ~net.send THEN Cause(<<"Error sending GET request">>)
    ELSE IF ~net.text THEN Cause(<<"Error converting input to string">>)
    ELSE IF Contains(net.body, SERVICE_UNAVAILABLE)
        THEN Cause(<<"Advent of Code is dead">>)
    ELSE IF Contains(net.body, RATE_LIMITED) \/ Contains(net.body, NOT_FOUND)
        THEN Cause(<<"Puzzle for day ", day, " is not live yet">>)
    ELSE IF Contains(net.body, LOG_IN)
        THEN Cause(<<"Session cookie is invalid">>)
    ELSE IF Contains(net.body, INTERNAL_SERVER_ERROR)
        THEN Cause(<<"Internal Server Error, invalid session cookie perhaps?">>)
    ELSE Ok(net.body)

(* ------------------------------ get_stars ----------------------------- *)

get_stars_stars_first(day, year, net) ==
    IF ~net.send THEN Cause(<<"Error sending GET request">>)
    ELSE IF ~net.text
        THEN Panic(<<"called Result::unwrap() on an Err value">>)
    ELSE IF Contains(net.body, FIRST_HALF) THEN Ok(One)
    ELSE IF Contains(net.body, BOTH_PARTS) THEN Ok(Two)
    ELSE IF Contains(net.body, RATE_LIMITED) \/ Contains(net.body, NOT_FOUND)
        THEN Cause(<<"Puzzle for day ", day, " is not live yet">>)
    ELSE Ok(Zero)

get_stars(day, year, net) ==
    IF ~net.send THEN Cause(<<"Error sending GET request">>)
    ELSE IF ~net.text
        THEN Panic(<<"called Result::unwrap() on an Err value">>)
    ELSE IF Contains(net.body, RATE_LIMITED) \/ Contains(net.body, NOT_FOUND)
        THEN Cause(<<"Puzzle for day ", day, " is not live yet">>)
    ELSE IF Contains(net.body, FIRST_HALF) THEN Ok(One)
    ELSE IF Contains(net.body, BOTH_PARTS) THEN Ok(Two)
    ELSE Ok(Zero)

(* ------------------------------ split_by ------------------------------ *)

\* str::split: the matches are found left to right, each search resuming
\* after the previous match; an empty pattern matches at every boundary.
FirstMatch(s, delim) ==
    LET hits == {i \in 1..Len(s) :
                    /\ i + Len(delim) - 1 <= Len(s)
                    /\ SubSeq(s, i, i + Len(delim) - 1) = delim}
    IN  IF hits = {} THEN 0
        ELSE CHOOSE i \in hits : \A j \in hits : i <= j

RECURSIVE StrSplit(_, _)
StrSplit(s, delim) ==
    IF Len(delim) = 0
    THEN <<<<>>>> \o [i \in 1..Len(s) |-> <<s[i]>>] \o <<<<>>>>
    ELSE LET i == FirstMatch(s, delim)
         IN  IF i = 0 THEN <<s>>
             ELSE <<SubSeq(s, 1, i - 1)>>
                      \o StrSplit(SubSeq(s, i + Len(delim), Len(s)), delim)

\* <String as FromStr>::from_str never fails and copies the token
parse_string(x) == Ok(x)

unwrap(r) == r.val

split_by_skipping_empty(self, delim) ==
    LET toks == SelectSeq(StrSplit(self.input, delim), LAMBDA t : Len(t) > 0)
    IN  [i \in 1..Len(toks) |-> unwrap(parse_string(toks[i]))]

split_by(self, delim) ==
    LET toks == StrSplit(self.input, delim)
    IN  [i \in 1..Len(toks) |-> unwrap(parse_string(toks[i]))]

(* --------------------- the record of the last call -------------------- *)

NoCall ==
    [op |-> "none", day |-> "", year |-> "", net |-> SendFailed,
     route |-> "", fetched |-> NoResult, ret |-> NoResult,
     http |-> FALSE, env |-> FALSE, body |-> <<>>, delim |-> <<>>]

(* ------------------------ classifier specification -------------------- *)

Fragments ==
    {"Service Unavailable", "Please don't repeatedly request", "Not Found",
     "log ", "in", "Internal Server Error",
     "The first half of this puzzle is complete!",
     "Both parts of this puzzle are complete!", "1721"}

SeqsUpTo(S, n) == UNION {[1..k -> S] : k \in 0..n}

Pages == SeqsUpTo(Fragments, MaxLen)

Days == {"1", "5"}

Years == {"2017"}

Chars == {"1", ",", ";"}

Delims == SeqsUpTo({",", ";"}, MaxDelimLen)

Absent == [exists |-> FALSE, utf8 |-> TRUE, data |-> <<>>]

Paths == {get_input_filename(INPUT_DIR, y, d) : y \in Years, d \in Days}

NotServed == [some |-> FALSE, body |-> <<>>]

Callers == {"A", "B"}

NoLocal ==
    [input |-> <<>>, ret |-> NoResult, clean |-> FALSE, missing |-> FALSE,
     sent |-> FALSE, fetched |-> NoResult, wrote |-> FALSE]

Idle ==
    /\ dir = FALSE
    /\ files = [p \in Paths |-> Absent]
    /\ served = [p \in Paths |-> NotServed]
    /\ pc = [c \in Callers |-> "idle"]
    /\ loc = [c \in Callers |-> NoLocal]
    /\ lastWriter = "none"

\* The arguments of one call are drawn here; the call is made by the action.
InitClassifier ==
    /\ Idle
    /\ \E d \in Days, y \in Years :
          \/ \E net \in Outcomes(Pages) :
                call = [NoCall EXCEPT !.day = d, !.year = y, !.net = net]
          \/ \E b \in SeqsUpTo(Chars, MaxSplitLen), delim \in Delims :
                call = [NoCall EXCEPT !.day = d, !.year = y,
                                      !.body = b, !.delim = delim]

FetchInputPage ==
    /\ call.op = "none"
    /\ call' = [call EXCEPT !.op = "fetch_input", !.http = TRUE,
                            !.ret = fetch_input(call.day, call.year, call.net)]
    /\ UNCHANGED <<dir, files, served, pc, loc, lastWriter>>

GetStarsPage ==
    /\ call.op = "none"
    /\ call' = [call EXCEPT !.op = "get_stars", !.http = TRUE,
                            !.ret = get_stars(call.day, call.year, call.net)]
    /\ UNCHANGED <<dir, files, served, pc, loc, lastWriter>>

SplitBy ==
    /\ call.op = "none"
    /\ call' = [call EXCEPT !.op = "split_by",
                            !.ret = Ok(split_by(AocInput(call.day, call.year,
                                                         call.body),
                                                call.delim))]
    /\ UNCHANGED <<dir, files, served, pc, loc, lastWriter>>

NextClassifier == FetchInputPage \/ GetStarsPage \/ SplitBy

SpecClassifier == InitClassifier /\ [][NextClassifier]_vars

(* ------------------------------ disk cache ---------------------------- *)

File(data) == [exists |-> TRUE, utf8 |-> TRUE, data |-> data]

\* a file whose bytes fs::read_to_string cannot return as a String
NotUtf8 == [exists |-> TRUE, utf8 |-> FALSE, data |-> <<>>]

\* fs::write: done; refused before the file is touched; or failed after the
\* file was created or truncated
WriteOutcomes == {"ok", "denied", "partial"}

cache_hit_never(path) == FALSE

cache_hit(path) == files[path].exists

read_cache(f) ==
    IF f.utf8 THEN Ok(f.data) ELSE Cause(<<"Unable to read the file">>)

save_to_file_not_written(self, d, f, mkdir, write) ==
    [ret |-> Ok(<<>>), dir |-> d, files |-> f]

\* d, f: the directory and the files before; mkdir, write: whether
\* fs::create_dir succeeds if attempted, and how fs::write ends
save_to_file(self, d, f, mkdir, write) ==
    LET input_filename == get_input_filename(INPUT_DIR, self.year, self.day)
    IN  IF ~d /\ ~mkdir
        THEN [ret |-> Cause(<<"Unable to create input directory">>),
              dir |-> d, files |-> f]
        ELSE IF write = "ok"
        THEN [ret |-> Ok(<<>>), dir |-> TRUE,
              files |-> [f EXCEPT ![input_filename] = File(self.input)]]
        ELSE [ret |-> Cause(<<"Unable to write the file">>), dir |-> TRUE,
              files |-> IF write = "partial"
                        THEN [f EXCEPT ![input_filename] = File(<<>>)]
                        ELSE f]

get_session_cookie(session) ==
    IF session THEN Ok(<<"session">>)
    ELSE Panic(<<"Expected a token in the environment">>)

fetch_and_save_eager_dir(day, year, fetched, d, f, mkdir, write) ==
    LET input == AocInput(day, year, fetched.val)
        saved == save_to_file(input, d, f, mkdir, write)
    IN  IF fetched.tag # "Ok" THEN [ret |-> fetched, dir |-> TRUE, files |-> f]
        ELSE IF saved.ret.tag # "Ok" THEN saved
        ELSE [saved EXCEPT !.ret = Ok(input.input)]

\* the else branch once the token is there: fetch_input(..)?,
\* input.save_to_file()?, Ok(input)
fetch_and_save(day, year, fetched, d, f, mkdir, write) ==
    LET input == AocInput(day, year, fetched.val)
        saved == save_to_file(input, d, f, mkdir, write)
    IN  IF fetched.tag # "Ok" THEN [ret |-> fetched, dir |-> d, files |-> f]
        ELSE IF saved.ret.tag # "Ok" THEN saved
        ELSE [saved EXCEPT !.ret = Ok(input.input)]

(* ------------------- sequential use of the library -------------------- *)

CachePages == {<<"1721">>, <<"979">>, <<"Not Found">>, <<"log ", "in">>}

SaveBodies == {<<"979">>, <<"data">>}

UserFiles == {File(<<"data">>), File(<<"Not Found">>), NotUtf8}

\* served[p]: the body the last successful load_or_fetch_input returned for
\* p, forgotten as soon as anything else writes or removes p (history only)
Serve(path, ret) ==
    IF ret.tag = "Ok" THEN [served EXCEPT ![path] = [some |-> TRUE, body |-> ret.val]]
    ELSE served

Init ==
    /\ Idle
    /\ call = NoCall

load_or_fetch_input(day, year) ==
    LET input_path == get_input_filename(INPUT_DIR, year, day)
        this == [NoCall EXCEPT !.op = "load_or_fetch_input",
                               !.day = day, !.year = year]
    IN  /\ UNCHANGED <<pc, loc, lastWriter>>
        /\ IF cache_hit(input_path)
           THEN LET raw_input == read_cache(files[input_path])
                IN  /\ call' = [this EXCEPT !.route = "load", !.ret = raw_input]
                    /\ served' = Serve(input_path, raw_input)
                    /\ UNCHANGED <<dir, files>>
           ELSE \E session \in BOOLEAN, net \in Outcomes(CachePages),
                   mkdir \in BOOLEAN, write \in WriteOutcomes :
                    LET session_cookie == get_session_cookie(session)
                        fetched == fetch_input(day, year, net)
                        r == fetch_and_save(day, year, fetched, dir, files,
                                            mkdir, write)
                    IN  IF session_cookie.tag # "Ok"
                        THEN /\ call' = [this EXCEPT !.route = "fetch",
                                                     !.env = TRUE,
                                                     !.ret = session_cookie]
                             /\ UNCHANGED <<dir, files, served>>
                        ELSE /\ call' = [this EXCEPT !.route = "fetch",
                                                     !.env = TRUE,
                                                     !.http = TRUE,
                                                     !.net = net,
                                                     !.fetched = fetched,
                                                     !.ret = r.ret]
                             /\ dir' = r.dir
                             /\ files' = r.files
                             /\ served' = Serve(input_path, r.ret)

LoadOrFetchInput == \E d \in Days, y \in Years : load_or_fetch_input(d, y)

FetchInput ==
    \E d \in Days, y \in Years, net \in Outcomes(CachePages) :
        /\ call' = [NoCall EXCEPT !.op = "fetch_input", !.day = d, !.year = y,
                                  !.net = net, !.http = TRUE,
                                  !.ret = fetch_input(d, y, net)]
        /\ UNCHANGED <<dir, files, served, pc, loc, lastWriter>>

GetStars ==
    \E d \in Days, y \in Years, net \in Outcomes(CachePages) :
        /\ call' = [NoCall EXCEPT !.op = "get_stars", !.day = d, !.year = y,
                                  !.net = net, !.http = TRUE,
                                  !.ret = get_stars(d, y, net)]
        /\ UNCHANGED <<dir, files, served, pc, loc, lastWriter>>

SaveToFile ==
    \E d \in Days, y \in Years, b \in SaveBodies, mkdir \in BOOLEAN,
       write \in WriteOutcomes :
        LET r == save_to_file(AocInput(d, y, b), dir, files, mkdir, write)
            path == get_input_filename(INPUT_DIR, y, d)
        IN  /\ call' = [NoCall EXCEPT !.op = "save_to_file", !.day = d,
                                      !.year = y, !.body = b, !.ret = r.ret]
            /\ dir' = r.dir
            /\ files' = r.files
            /\ served' = [served EXCEPT ![path] = NotServed]
            /\ UNCHANGED <<pc, loc, lastWriter>>

\* the user, outside the library: puts a file of their own in the cache
UserWrite ==
    \E path \in Paths, f \in UserFiles :
        /\ call' = [NoCall EXCEPT !.op = "user"]
        /\ dir' = TRUE
        /\ files' = [files EXCEPT ![path] = f]
        /\ served' = [served EXCEPT ![path] = NotServed]
        /\ UNCHANGED <<pc, loc, lastWriter>>

\* the user, outside the library: removes a cache file
UserRemove ==
    \E path \in Paths :
        /\ files[path].exists
        /\ call' = [NoCall EXCEPT !.op = "user"]
        /\ files' = [files EXCEPT ![path] = Absent]
        /\ served' = [served EXCEPT ![path] = NotServed]
        /\ UNCHANGED <<dir, pc, loc, lastWriter>>

Next ==
    \/ LoadOrFetchInput
    \/ FetchInput
    \/ GetStars
    \/ SaveToFile
    \/ UserWrite
    \/ UserRemove

Spec == Init /\ [][Next]_vars

(* ------------- two concurrent callers of load_or_fetch_input ---------- *)
(* Each caller runs load_or_fetch_input("5", "2017") on a thread of its    *)
(* own; a step is one filesystem or network call.  pc[c] is c's position,  *)
(* loc[c] its locals and what it has done, lastWriter the caller whose     *)
(* fs::write came last.                                                    *)

ConcDay == "5"

ConcYear == "2017"

ConcPath == get_input_filename(INPUT_DIR, ConcYear, ConcDay)

ConcPages == {<<"1721">>, <<"979">>, <<"Not Found">>}

Other(c) == CHOOSE o \in Callers : o # c

At(c, where) == pc' = [pc EXCEPT ![c] = where]

Return(c, l, ret) ==
    /\ pc' = [pc EXCEPT ![c] = "done"]
    /\ loc' = [loc EXCEPT ![c] = [l EXCEPT !.ret = ret]]

InitConc ==
    /\ call = NoCall
    /\ served = [p \in Paths |-> NotServed]
    /\ pc = [c \in Callers |-> "start"]
    /\ loc = [c \in Callers |-> NoLocal]
    /\ lastWriter = "none"
    /\ \E d \in BOOLEAN, f \in {Absent, File(<<"data">>), NotUtf8} :
          /\ f.exists => d
          /\ dir = d
          /\ files = [p \in Paths |-> IF p = ConcPath THEN f ELSE Absent]

cache_probe_exclusive(c) ==
    /\ pc[c] = "start"
    /\ pc[Other(c)] \in {"start", "done"}
    /\ loc' = [loc EXCEPT ![c].clean = ~dir /\ ~files[ConcPath].exists,
                          ![c].missing = ~cache_hit(ConcPath)]
    /\ At(c, IF cache_hit(ConcPath) THEN "read" ELSE "cookie")
    /\ UNCHANGED <<dir, files, call, served, lastWriter>>

\* Path::new(&input_path).exists()
cache_probe(c) ==
    /\ pc[c] = "start"
    /\ loc' = [loc EXCEPT ![c].clean = ~dir /\ ~files[ConcPath].exists,
                          ![c].missing = ~cache_hit(ConcPath)]
    /\ At(c, IF cache_hit(ConcPath) THEN "read" ELSE "cookie")
    /\ UNCHANGED <<dir, files, call, served, lastWriter>>

\* fs::read_to_string(input_path) and the return of the cached input
read_cached(c) ==
    /\ pc[c] = "read"
    /\ Return(c, loc[c], read_cache(files[ConcPath]))
    /\ UNCHANGED <<dir, files, call, served, lastWriter>>

\* get_session_cookie()
read_session(c) ==
    /\ pc[c] = "cookie"
    /\ \E session \in BOOLEAN :
          LET session_cookie == get_session_cookie(session)
          IN  IF session_cookie.tag = "Ok"
              THEN At(c, "fetch") /\ UNCHANGED loc
              ELSE Return(c, loc[c], session_cookie)
    /\ UNCHANGED <<dir, files, call, served, lastWriter>>

\* fetch_input(day, year, &session_cookie)?
http_get(c) ==
    /\ pc[c] = "fetch"
    /\ \E net \in Outcomes(ConcPages) :
          LET fetched == fetch_input(ConcDay, ConcYear, net)
              l == [loc[c] EXCEPT !.sent = TRUE, !.fetched = fetched]
          IN  IF fetched.tag = "Ok"
              THEN /\ loc' = [loc EXCEPT ![c] = [l EXCEPT !.input = fetched.val]]
                   /\ At(c, "dir_probe")
              ELSE Return(c, l, fetched)
    /\ UNCHANGED <<dir, files, call, served, lastWriter>>

\* save_to_file: !Path::new(INPUT_DIR).exists()
dir_probe(c) ==
    /\ pc[c] = "dir_probe"
    /\ At(c, IF dir THEN "write" ELSE "create_dir")
    /\ UNCHANGED <<dir, files, call, served, loc, lastWriter>>

\* save_to_file: fs::create_dir(INPUT_DIR).is_err(); create_dir fails on a
\* directory that is there already
create_dir(c) ==
    /\ pc[c] = "create_dir"
    /\ IF dir
       THEN /\ Return(c, loc[c], Cause(<<"Unable to create input directory">>))
            /\ UNCHANGED dir
       ELSE /\ dir' = TRUE
            /\ At(c, "write")
            /\ UNCHANGED loc
    /\ UNCHANGED <<files, call, served, lastWriter>>

\* save_to_file: fs::write(input_filename, &self.input), then Ok(input)
write_file(c) ==
    /\ pc[c] = "write"
    /\ files' = [files EXCEPT ![ConcPath] = File(loc[c].input)]
    /\ lastWriter' = c
    /\ Return(c, [loc[c] EXCEPT !.wrote = TRUE], Ok(loc[c].input))
    /\ UNCHANGED <<dir, call, served>>

ConcStep(c) ==
    \/ cache_probe(c)
    \/ read_cached(c)
    \/ read_session(c)
    \/ http_get(c)
    \/ dir_probe(c)
    \/ create_dir(c)
    \/ write_file(c)

NextConc == \E c \in Callers : ConcStep(c)

SpecConc == InitConc /\ [][NextConc]_vars

(* ============================== claims ================================ *)

PathOf(c) == get_input_filename(INPUT_DIR, c.year, c.day)

\* C1: when load_or_fetch_input is called while inputs/{year}-{day}.txt
\* exists and can be read, it returns the file's content as it is (a
\* content holding a classifier sentinel included) by the load branch: no
\* HTTP request is issued and AOC_SESSION is not read.
C1_CachedInputReturnedUnvalidated ==
    [][\A d \in Days, y \in Years :
          LET p == get_input_filename(INPUT_DIR, y, d)
          IN  (files[p].exists /\ files[p].utf8 /\ load_or_fetch_input(d, y))
                  => /\ call'.ret = Ok(files[p].data)
                     /\ call'.route = "load"
                     /\ ~call'.http
                     /\ ~call'.env]_vars

\* a cached file holding "Not Found" was returned without a request
C1_Witness ==
    /\ call.op = "load_or_fetch_input"
    /\ call.route = "load"
    /\ call.ret = Ok(<<"Not Found">>)
    /\ files[PathOf(call)] = File(<<"Not Found">>)
    /\ ~call.http
    /\ ~call.env

\* C2: once load_or_fetch_input has returned successfully for (year, day),
\* the cache file exists and holds the returned body; and as long as nothing
\* else changes that file, every later load_or_fetch_input for the same
\* (year, day) returns the same body and issues no HTTP request.
C2_Idempotent ==
    /\ [](/\ (call.op = "load_or_fetch_input" /\ call.ret.tag = "Ok")
                => files[PathOf(call)] = File(call.ret.val)
          /\ \A p \in Paths : served[p].some => files[p] = File(served[p].body))
    /\ [][\A d \in Days, y \in Years :
            LET p == get_input_filename(INPUT_DIR, y, d)
            IN  (served[p].some /\ load_or_fetch_input(d, y))
                    => /\ call'.ret = Ok(served[p].body)
                       /\ ~call'.http
                       /\ files'[p] = files[p]]_vars

\* the body 1721 only ever comes from the service: it was fetched and saved
\* by an earlier call, and this call read it back from the cache
C2_Witness ==
    /\ call.op = "load_or_fetch_input"
    /\ call.route = "load"
    /\ call.ret = Ok(<<"1721">>)
    /\ served[PathOf(call)] = [some |-> TRUE, body |-> <<"1721">>]
    /\ ~call.http

\* C3: when load_or_fetch_input takes the fetch branch and fetch_input
\* fails (transport failure or classifier rejection), the call returns that
\* error and neither the inputs directory nor any cache file is created or
\* written.
C3_FailedFetchWritesNothing ==
    [][\A d \in Days, y \in Years :
          LET p == get_input_filename(INPUT_DIR, y, d)
          IN  (/\ ~files[p].exists
               /\ load_or_fetch_input(d, y)
               /\ call'.fetched.tag = "Err")
                  => /\ call'.ret = call'.fetched
                     /\ dir' = dir
                     /\ files' = files]_vars

\* a classifier rejection was returned and inputs/ still does not exist
C3_Witness ==
    /\ call.op = "load_or_fetch_input"
    /\ call.route = "fetch"
    /\ call.fetched = Cause(<<"Session cookie is invalid">>)
    /\ call.ret = call.fetched
    /\ ~dir
    /\ \A p \in Paths : ~files[p].exists

LibraryRead == LoadOrFetchInput \/ FetchInput \/ GetStars

Kept == \A p \in Paths : files[p].exists => files'[p] = files[p]

\* C6 (as stated): no public operation of the library, Input.save_to_file
\* included, rewrites or deletes a cache file that exists.
C6_NoOperationRewrites == [][(LibraryRead \/ SaveToFile) => Kept]_vars

\* C6 (amended): load_or_fetch_input, fetch_input and get_stars, called one
\* after the other, never rewrite or delete a cache file that exists.
C6_ReadersNeverRewrite == [][LibraryRead => Kept]_vars

\* load_or_fetch_input for day 1 fetched and saved while the user's file for
\* day 5 was in the cache
C6_Witness ==
    /\ call.op = "load_or_fetch_input"
    /\ call.day = "1"
    /\ call.route = "fetch"
    /\ call.ret.tag = "Ok"
    /\ files[get_input_filename(INPUT_DIR, "2017", "5")] = File(<<"data">>)

(* ------------------------------ classifiers --------------------------- *)

FetchSentinels ==
    {SERVICE_UNAVAILABLE, RATE_LIMITED, NOT_FOUND, LOG_IN, INTERNAL_SERVER_ERROR}

\* the probe table, in its order
FetchProbes ==
    <<{SERVICE_UNAVAILABLE}, {RATE_LIMITED, NOT_FOUND}, {LOG_IN},
      {INTERNAL_SERVER_ERROR}>>

FetchOutcome(i, day) ==
    CASE i = 1 -> <<"Advent of Code is dead">>
      [] i = 2 -> <<"Puzzle for day ", day, " is not live yet">>
      [] i = 3 -> <<"Session cookie is invalid">>
      [] OTHER -> <<"Internal Server Error, invalid session cookie perhaps?">>

Matching(body) ==
    {i \in DOMAIN FetchProbes : \E n \in FetchProbes[i] : Contains(body, n)}

Arrived(c) == c.net.send /\ c.net.text

\* C4: fetch_input's outcome is that of the first probe of the table that
\* matches the body; it is Ok with the body verbatim exactly when none
\* matches, so a returned Input contains no sentinel.
C4_FirstProbeWins ==
    (call.op = "fetch_input" /\ Arrived(call)) =>
        LET m == Matching(call.net.body)
        IN  /\ m = {} => call.ret = Ok(call.net.body)
            /\ m # {} =>
                 \E i \in m :
                    /\ \A j \in m : i <= j
                    /\ call.ret = Cause(FetchOutcome(i, call.day))
            /\ call.ret.tag = "Ok" =>
                 \A n \in FetchSentinels : ~Contains(call.ret.val, n)

\* a page with "log in" ahead of "Service Unavailable" is an outage
C4_Witness ==
    /\ call.op = "fetch_input"
    /\ call.net = Received(<<"log ", "in", "Service Unavailable">>)
    /\ call.ret = Cause(<<"Advent of Code is dead">>)

NotLive(body) == Contains(body, RATE_LIMITED) \/ Contains(body, NOT_FOUND)

\* C5: get_stars rejects a not-live page before it looks for stars (such a
\* page is never Zero, One or Two); otherwise it is One on the first-half
\* sentence, else Two on the both-parts sentence, else Zero; the outage,
\* login and server-error probes play no part.
C5_NotLiveBeforeStars ==
    (call.op = "get_stars" /\ Arrived(call)) =>
        LET b == call.net.body
        IN  /\ NotLive(b) =>
                 call.ret = Cause(<<"Puzzle for day ", call.day, " is not live yet">>)
            /\ (~NotLive(b) /\ Contains(b, FIRST_HALF)) => call.ret = Ok(One)
            /\ (~NotLive(b) /\ ~Contains(b, FIRST_HALF) /\ Contains(b, BOTH_PARTS))
                 => call.ret = Ok(Two)
            /\ (~NotLive(b) /\ ~Contains(b, FIRST_HALF) /\ ~Contains(b, BOTH_PARTS))
                 => call.ret = Ok(Zero)

\* a not-found page that also holds a star sentence is an error, and a page
\* saying "Service Unavailable" was classified at all
C5_Witness ==
    /\ call.op = "get_stars"
    /\ call.net = Received(<<"The first half of this puzzle is complete!",
                             "Service Unavailable", "Not Found">>)
    /\ call.ret = Cause(<<"Puzzle for day ", call.day, " is not live yet">>)

\* C7: in fetch_input and in get_stars alike, a failure to send the GET is
\* returned as "Error sending GET request" and a failure to decode the body
\* as "Error converting input to string".
C7_TransportErrorsReturned ==
    call.op \in {"fetch_input", "get_stars"} =>
        /\ ~call.net.send => call.ret = Cause(<<"Error sending GET request">>)
        /\ (call.net.send /\ ~call.net.text)
             => call.ret = Cause(<<"Error converting input to string">>)

(* ------------------------------- split_by ----------------------------- *)

MatchesAt(s, delim) ==
    {i \in 0..Len(s) :
        /\ i + Len(delim) <= Len(s)
        /\ SubSeq(s, i + 1, i + Len(delim)) = delim}

NonOverlapping(P, delim) == \A i, j \in P : i < j => i + Len(delim) <= j

\* the number of occurrences of delim in s: the most that fit side by side
Occurrences(s, delim) ==
    LET sizes == {Cardinality(P) : P \in {Q \in SUBSET MatchesAt(s, delim) :
                                              NonOverlapping(Q, delim)}}
    IN  CHOOSE n \in sizes : \A k \in sizes : k <= n

RECURSIVE Join(_, _)
Join(toks, delim) ==
    IF Len(toks) = 0 THEN <<>>
    ELSE IF Len(toks) = 1 THEN toks[1]
    ELSE toks[1] \o delim \o Join(Tail(toks), delim)

\* C8: split_by(delim) into strings, on a body with n occurrences of delim,
\* yields n+1 tokens, in source order (put back around the delimiter they
\* give the body), empty tokens kept.
C8_SplitLength ==
    call.op = "split_by" =>
        /\ Len(call.ret.val) = Occurrences(call.body, call.delim) + 1
        /\ Join(call.ret.val, call.delim) = call.body

\* "1,,1" split at "," gives three tokens, the middle one empty
C8_Witness ==
    /\ call.op = "split_by"
    /\ call.body = <<"1", ",", ",", "1">>
    /\ call.delim = <<",">>
    /\ call.ret = Ok(<< <<"1">>, <<>>, <<"1">> >>)

(* ------------------------------ concurrency --------------------------- *)

\* C9: the two calls are not arbitrated: a caller that has not returned can
\* always take its next step whatever the other is doing, so both may see
\* the file missing, both send a GET and both write the cache file.
C9_NotArbitrated ==
    \A c \in Callers : pc[c] # "done" => ENABLED ConcStep(c)

\* both callers saw the file missing, sent a GET and wrote the cache file
C9_Witness ==
    \A c \in Callers :
        /\ pc[c] = "done"
        /\ loc[c].missing
        /\ loc[c].sent
        /\ loc[c].wrote

\* C10: when both calls start with the inputs directory and the cache file
\* absent and both fetches succeed, each call returns Ok with the body it
\* fetched and the cache file holds the body written last.
C10_LastWriterWins ==
    (\A c \in Callers :
        pc[c] = "done" /\ loc[c].clean /\ loc[c].fetched.tag = "Ok")
        => /\ \A c \in Callers : loc[c].ret = Ok(loc[c].input)
           /\ lastWriter \in Callers
           /\ files[ConcPath] = File(loc[lastWriter].input)

====
